---- MODULE Spec2Model ----
(***************************************************************************)
(* Model of LLKERNEL_flash.c: the flash-resident catalog of kernel         *)
(* features (slots with a 32-byte header each), the RAM arena bound to     *)
(* the features, the install / uninstall / count operations and the paged  *)
(* ROM streamer (copyToROM, flushCopyToROM).                               *)
(*                                                                         *)
(* uint32_t values are held by their two's-complement int32 reading (TLC   *)
(* integers are 32 bits wide): 0xFFFFFFFF is -1, 0x90000000 is             *)
(* -1879048192.  Add32 and Sub32 wrap modulo 2^32 and ULt, ULe compare as  *)
(* the C code compares unsigned words.  int32_t handles and sizes are the  *)
(* same bit patterns, so the (uint32_t) casts of the code are identities.  *)
(***************************************************************************)
EXTENDS Integers, FiniteSets, Sequences, TLC

----------------------------------------------------------------------------
(* 32-bit unsigned arithmetic on the int32 reading                         *)

Half == 256 * 256

MaxInt32 == 32767 * Half + (Half - 1)

MinInt32 == -MaxInt32 - 1

(* The sum modulo 2^32: the sum of two words of one sign may leave the     *)
(* int32 range, it is then brought back by 2^32, taken in two steps.       *)
Add32(a, b) ==
    IF a >= 0 /\ b >= 0 /\ a > MaxInt32 - b
    THEN (a + MinInt32) + (b + MinInt32)
    ELSE IF a < 0 /\ b < 0 /\ a < MinInt32 - b
         THEN (a - MinInt32) + (b - MinInt32)
         ELSE a + b

Neg32(a) == IF a = MinInt32 THEN a ELSE -a

Sub32(a, b) == Add32(a, Neg32(b))

ULt(a, b) == IF (a < 0) = (b < 0) THEN a < b ELSE b < 0

ULe(a, b) == a = b \/ ULt(a, b)

----------------------------------------------------------------------------
(* State                                                                   *)

VARIABLES
    kf_block_size,    \* the configured size of the KF area, fixed at build time
    flash,            \* the first sizeof(feature_header_t) bytes of each page followed
    mem_writeBuffer,  \* the first sizeof(feature_header_t) bytes of the staging page
    target_page_address,    \* the page the staging page is pending for, or NULL
    mem_writeBuffer_offset, \* number of bytes staged for that page
    last_feature_ptr, \* address of the last USED header seen, or NULL
    nb_features,      \* cached number of USED features
    mmap,             \* TRUE when the flash controller is in memory-mapped mode
    call,             \* the last public call: its arguments, result and flash traffic
    calls_left        \* public calls the run may still make; negative: no limit

vars == <<kf_block_size, flash, mem_writeBuffer, target_page_address,
          mem_writeBuffer_offset, last_feature_ptr, nb_features, mmap, call,
          calls_left>>

----------------------------------------------------------------------------
(* Configuration.  The values are the defaults of                          *)
(* LLKERNEL_flash_configuration.h, except the size of the KF area: the     *)
(* port sets it (kf_block_size), by default to LLKERNEL_KF_BLOCK_SIZE, six *)
(* subsectors, and the link-time symbol _java_max_nb_dynamic_features is   *)
(* 3: three slots of two subsectors.  kernel_ram_buffer is the address the *)
(* linker gives the RAM arena; it is aligned on LLKERNEL_RAM_ALIGN_SIZE as *)
(* its declaration requires.                                               *)

NULL == 0

AllOnes == -1

LLKERNEL_RAM_BUFFER_SIZE == 1024 * 100

LLKERNEL_RAM_ALIGN_SIZE == 256

LLKERNEL_FLASH_BASE == -1879048192

LLKERNEL_FLASH_PAGE_SIZE == 256

LLKERNEL_FLASH_SUBSECTOR_SIZE == 4 * 1024

LLKERNEL_KF_BLOCK_SIZE == 6 * LLKERNEL_FLASH_SUBSECTOR_SIZE

LLKERNEL_KF_START == Add32(LLKERNEL_FLASH_BASE, 0)

LLKERNEL_KF_END == Add32(LLKERNEL_KF_START, kf_block_size)

LLKERNEL_FEATURE_USED_MAGIC_NUMBER == 404518888

LLKERNEL_FEATURE_REMOVED_MAGIC_NUMBER == 3857575

kernel_max_nb_dynamic_features == 3

kernel_ram_buffer == 536870912

(* sizeof(feature_header_t), and sizeof of a pointer on the 32-bit target   *)
(* (the code keeps every address in a uint32_t).                           *)
SizeofHeader == 32

SizeofPointer == 4

(* Result codes of copyToROM and flushCopyToROM.                           *)
LLKERNEL_OK == 0

LLKERNEL_ERROR == -1

(* A word of the image the caller streams to ROM.                          *)
ImageWord == 23130 * Half + 23130

----------------------------------------------------------------------------
(* feature_header_t                                                        *)

HeaderFields ==
    {"status", "nb_subsectors", "rom_address", "rom_size",
     "ram_address", "ram_size", "feature_index", "reserved"}

(* The words of a page the model follows: the header and the word behind   *)
(* it, the first of the bytes sizeof(feature_header_t)..page_size - 1.     *)
PageWords == HeaderFields \cup {"tail"}

FieldOffset ==
    [status |-> 0, nb_subsectors |-> 4, rom_address |-> 8, rom_size |-> 12,
     ram_address |-> 16, ram_size |-> 20, feature_index |-> 24, reserved |-> 28,
     tail |-> 32]

ErasedHeader == [f \in PageWords |-> AllOnes]

ZeroHeader == [f \in PageWords |-> 0]

is_feature_used(feature_status) ==
    LLKERNEL_FEATURE_USED_MAGIC_NUMBER = feature_status

is_feature_removed(feature_status) ==
    LLKERNEL_FEATURE_REMOVED_MAGIC_NUMBER = feature_status

----------------------------------------------------------------------------
(* Flash controller contract (flash_controller.h)                          *)

flash_ctrl_get_kf_start_address == LLKERNEL_KF_START

flash_ctrl_get_kf_end_address == LLKERNEL_KF_END

flash_ctrl_get_page_size == LLKERNEL_FLASH_PAGE_SIZE

flash_ctrl_get_subsector_size == LLKERNEL_FLASH_SUBSECTOR_SIZE

flash_ctrl_get_subsector_address(address) ==
    address - (address % LLKERNEL_FLASH_SUBSECTOR_SIZE)

(* A page address that is the address itself, as if every address were    *)
(* the base of a page.                                                     *)
PageAtAddress(address) == address

flash_ctrl_get_page_address(address) ==
    address - (address % LLKERNEL_FLASH_PAGE_SIZE)

----------------------------------------------------------------------------
(* Geometry                                                                *)

llkernel_get_kf_area_size ==
    Sub32(flash_ctrl_get_kf_end_address, flash_ctrl_get_kf_start_address)

llkernel_get_feature_slot_size_rom_bytes ==
    IF 0 # kernel_max_nb_dynamic_features
    THEN ((llkernel_get_kf_area_size \div LLKERNEL_FLASH_SUBSECTOR_SIZE)
              \div kernel_max_nb_dynamic_features) * LLKERNEL_FLASH_SUBSECTOR_SIZE
    ELSE 0

llkernel_get_next_aligned_ram_address(address) ==
    Add32(Sub32(address, address % LLKERNEL_RAM_ALIGN_SIZE), LLKERNEL_RAM_ALIGN_SIZE)

llkernel_feature_is_in_last_kf_slot(feature_ptr) ==
    ULe(flash_ctrl_get_kf_end_address,
        Add32(feature_ptr, llkernel_get_feature_slot_size_rom_bytes))

llkernel_get_next_feature(feature_ptr) ==
    IF /\ 0 # llkernel_get_feature_slot_size_rom_bytes
       /\ ~llkernel_feature_is_in_last_kf_slot(feature_ptr)
    THEN Add32(feature_ptr, llkernel_get_feature_slot_size_rom_bytes)
    ELSE NULL

RECURSIVE SlotsFrom(_)
SlotsFrom(feature_ptr) ==
    {feature_ptr} \cup
        (IF llkernel_get_next_feature(feature_ptr) = NULL
         THEN {}
         ELSE SlotsFrom(llkernel_get_next_feature(feature_ptr)))

(* The addresses at which the walks of the code read a feature header.     *)
SlotAddrs == SlotsFrom(flash_ctrl_get_kf_start_address)

----------------------------------------------------------------------------
(* The record of the last public call                                      *)

(* fail is the set of flash calls ("erase", "write") the device refuses    *)
(* during the call, ev the sequence of flash-controller calls and reads    *)
(* through the mapped window the call made, mmap_before, target_before and *)
(* offset_before the mode and the pending page it found.  For an allocate, *)
(* slot is the slot it chose, counted the nb_features its count left and   *)
(* scanned the number of calls it made before its erase loop.  interrupted *)
(* is the slot whose allocation a power loss cut short, kept until a call  *)
(* other than a count the device accepts is made; resumed is that slot as  *)
(* the allocate that follows finds it.  For a count, prev_op is the call   *)
(* made before it.  allocation_index and error_code are the arguments of   *)
(* getFeatureHandle and of onFeatureInitializationError.                   *)
NoCall ==
    [op |-> "none", size_ROM |-> 0, size_RAM |-> 0, handle |-> 0, result |-> 0,
     nb_before |-> 0, header_before |-> ErasedHeader, errors |-> {},
     erases |-> 0, writes |-> 0,
     dest |-> 0, size |-> 0, fail |-> {}, ev |-> <<>>, mmap_before |-> TRUE,
     target_before |-> NULL, offset_before |-> 0, slot |-> NULL, counted |-> 0,
     scanned |-> 0, interrupted |-> NULL, resumed |-> NULL,
     prev_op |-> "none", allocation_index |-> 0, error_code |-> "none"]

----------------------------------------------------------------------------
(* Flash controller: effect of a successful call on the pages followed     *)

(* flash_ctrl_erase_subsector: the subsector holding addr reads all-ones.  *)
flash_ctrl_erase_subsector(fl, addr) ==
    [p \in DOMAIN fl |->
        IF flash_ctrl_get_subsector_address(p) = flash_ctrl_get_subsector_address(addr)
        THEN ErasedHeader
        ELSE fl[p]]

(* flash_ctrl_page_write: the first size bytes of pData are programmed at  *)
(* addr; a header word is written when it lies wholly below size.          *)
flash_ctrl_page_write(fl, pData, addr, size) ==
    IF addr \in DOMAIN fl
    THEN [fl EXCEPT ![addr] =
             [f \in PageWords |->
                 IF FieldOffset[f] + 4 <= size THEN pData[f] ELSE @[f]]]
    ELSE fl

(* Number of flash_ctrl_page_write calls of llkernel_flash_write.          *)
FlashWritePages(size) ==
    (size + flash_ctrl_get_page_size - 1) \div flash_ctrl_get_page_size

(* llkernel_flash_write: size bytes starting at flash_start_address,       *)
(* written page by page; the first page carries the header input_buffer.   *)
llkernel_flash_write(fl, input_buffer, flash_start_address, size) ==
    IF 0 < size
    THEN flash_ctrl_page_write(fl, input_buffer, flash_start_address,
             IF flash_ctrl_get_page_size > size THEN size ELSE flash_ctrl_get_page_size)
    ELSE fl

----------------------------------------------------------------------------
(* Flash controller: the calls an operation makes, in order                *)

(* A call that the device refuses (FLASH_CTRL_ERROR) leaves the pages as   *)
(* they were.  The two mode switches are taken to succeed.                 *)
flash_ctrl_disable_memory_mapped_mode == [kind |-> "disable", addr |-> 0, ok |-> TRUE]

flash_ctrl_enable_memory_mapped_mode == [kind |-> "enable", addr |-> 0, ok |-> TRUE]

EraseCall(addr, fail) == [kind |-> "erase", addr |-> addr, ok |-> "erase" \notin fail]

WriteCall(addr, fail) == [kind |-> "write", addr |-> addr, ok |-> "write" \notin fail]

(* A read of flash through the memory-mapped window.                       *)
MappedRead(addr) == [kind |-> "read", addr |-> addr, ok |-> TRUE]

(* The page_write calls of llkernel_flash_write: it stops at a refusal.    *)
FlashWriteCalls(flash_start_address, size, fail) ==
    [k \in 1..(IF "write" \in fail /\ 0 < size THEN 1 ELSE FlashWritePages(size)) |->
        WriteCall(Add32(flash_start_address, (k - 1) * flash_ctrl_get_page_size), fail)]

(* Number of calls of one kind in a sequence of calls.                     *)
CallsOf(ev, kind) == Cardinality({i \in DOMAIN ev : ev[i].kind = kind})

(* The mode the controller is in before the i-th call of ev, m being the   *)
(* mode before the first.                                                  *)
ModeAt(m, ev, i) ==
    LET switches == {j \in 1..(i - 1) : ev[j].kind \in {"enable", "disable"}}
    IN  IF switches = {}
        THEN m
        ELSE ev[CHOOSE j \in switches : \A k \in switches : k <= j].kind = "enable"

ModeAfter(m, ev) == ModeAt(m, ev, Len(ev) + 1)

----------------------------------------------------------------------------
(* Slot scanner                                                            *)

RECURSIVE FreeSlotFrom(_, _)
FreeSlotFrom(fl, feature_ptr) ==
    IF ~is_feature_used(fl[feature_ptr].status)
    THEN feature_ptr
    ELSE IF llkernel_get_next_feature(feature_ptr) = NULL
         THEN NULL
         ELSE FreeSlotFrom(fl, llkernel_get_next_feature(feature_ptr))

(* A search that takes the first slot that reads erased.                   *)
FirstErasedSlot(fl) ==
    IF \E h \in SlotAddrs : fl[h].status = AllOnes
    THEN CHOOSE h \in SlotAddrs :
             /\ fl[h].status = AllOnes
             /\ \A g \in SlotAddrs : fl[g].status = AllOnes => ULe(h, g)
    ELSE NULL

llkernel_get_free_feature_slot(fl) ==
    FreeSlotFrom(fl, flash_ctrl_get_kf_start_address)

(* The header reads of llkernel_get_free_feature_slot.                     *)
RECURSIVE FreeSlotReads(_, _)
FreeSlotReads(fl, feature_ptr) ==
    <<MappedRead(feature_ptr)>> \o
        (IF \/ ~is_feature_used(fl[feature_ptr].status)
            \/ llkernel_get_next_feature(feature_ptr) = NULL
         THEN <<>>
         ELSE FreeSlotReads(fl, llkernel_get_next_feature(feature_ptr)))

(* A rewrite that programs the header back with the index it had.          *)
RewriteKeepsIndex(fl, feature_ptr, index, fail) == fl

(* The in-place rewrite of a USED header whose feature_index differs from  *)
(* its scan ordinal: copy the subsector, patch, erase, reprogram.  The     *)
(* write is attempted whether or not the erase succeeded.  With "power" in *)
(* fail the supply is lost between the erase and the write.                *)
RewriteIndex(fl, feature_ptr, index, fail) ==
    LET erased == IF "erase" \in fail
                  THEN fl
                  ELSE flash_ctrl_erase_subsector(fl, feature_ptr)
    IN  IF "write" \in fail \/ "power" \in fail
        THEN erased
        ELSE llkernel_flash_write(
                 erased,
                 [fl[feature_ptr] EXCEPT !.feature_index = index],
                 feature_ptr,
                 flash_ctrl_get_subsector_size)

(* The calls of that rewrite.                                              *)
RewriteCalls(feature_ptr, fail) ==
    <<MappedRead(feature_ptr), flash_ctrl_disable_memory_mapped_mode,
      EraseCall(feature_ptr, fail)>>
    \o (IF "power" \in fail
        THEN <<>>
        ELSE FlashWriteCalls(feature_ptr, flash_ctrl_get_subsector_size, fail)
             \o <<flash_ctrl_enable_memory_mapped_mode>>)

(* One iteration of the do-while loop of getAllocatedFeaturesCount, then   *)
(* the rest of the loop.  s holds flash, nb_features, last_feature_ptr,    *)
(* the calls made so far and whether the supply was lost in a rewrite.     *)
RECURSIVE CountLoop(_, _, _)
CountLoop(s, feature_ptr, fail) ==
    LET used    == is_feature_used(s.flash[feature_ptr].status)
        rewrite == used /\ s.flash[feature_ptr].feature_index # s.nb_features
        flash_error_occurred == rewrite /\ fail \cap {"erase", "write"} # {}
        power_lost == rewrite /\ "power" \in fail
        s1 == IF power_lost
              THEN [s EXCEPT !.flash = RewriteIndex(s.flash, feature_ptr,
                                                    s.nb_features, fail),
                             !.ev = @ \o <<MappedRead(feature_ptr)>>
                                      \o RewriteCalls(feature_ptr, fail),
                             !.power_lost = TRUE]
              ELSE IF used
              THEN [flash |-> IF rewrite
                              THEN RewriteIndex(s.flash, feature_ptr, s.nb_features, fail)
                              ELSE s.flash,
                    nb_features |-> Add32(s.nb_features, 1),
                    last_feature_ptr |-> feature_ptr,
                    ev |-> s.ev \o <<MappedRead(feature_ptr)>>
                           \o (IF rewrite THEN RewriteCalls(feature_ptr, fail) ELSE <<>>)
                           \o <<MappedRead(feature_ptr)>>,
                    power_lost |-> FALSE]
              ELSE [s EXCEPT !.ev = @ \o <<MappedRead(feature_ptr)>>]
    IN  IF \/ power_lost
           \/ /\ ~is_feature_used(s1.flash[feature_ptr].status)
              /\ ~is_feature_removed(s1.flash[feature_ptr].status)
        THEN s1
        ELSE IF llkernel_get_next_feature(feature_ptr) = NULL \/ flash_error_occurred
             THEN s1
             ELSE CountLoop(s1, llkernel_get_next_feature(feature_ptr), fail)

(* LLKERNEL_IMPL_getAllocatedFeaturesCount as a function of the flash.     *)
CountFeatures(fl, fail) ==
    CountLoop([flash |-> fl, nb_features |-> 0, last_feature_ptr |-> NULL,
               ev |-> <<>>, power_lost |-> FALSE],
              flash_ctrl_get_kf_start_address, fail)

----------------------------------------------------------------------------
(* Inputs of the public calls                                              *)

(* size_ROM arguments: the largest image that fits a slot behind its       *)
(* header, one byte more, and three bytes less than a slot.                *)
SizesROM ==
    {llkernel_get_feature_slot_size_rom_bytes - SizeofHeader,
     llkernel_get_feature_slot_size_rom_bytes - SizeofHeader + 1,
     llkernel_get_feature_slot_size_rom_bytes - 3}

(* size_RAM arguments: a third of the buffer (three such regions start     *)
(* inside it), the whole buffer, and one byte more.                        *)
SizesRAM ==
    {32 * 1024, LLKERNEL_RAM_BUFFER_SIZE, LLKERNEL_RAM_BUFFER_SIZE + 1}

(* Handles passed by the runtime: addresses of slot headers.               *)
Handles == SlotAddrs

(* The flash calls the device may refuse during one public call: none,     *)
(* every erase, or every page write.                                       *)
FlashFaults == {{}, {"erase"}, {"write"}}

(* The supply is lost: in allocateFeature between its erase loop and its   *)
(* header program, in freeFeature between its erase and its page write, in *)
(* getAllocatedFeaturesCount between the erase and the write of an index   *)
(* rewrite.                                                                *)
PowerLoss == {"power"}

(* copyToROM arguments <<dest, size>> inside the first slot: a transfer    *)
(* that starts behind the header and ends inside the second page, one that *)
(* stays inside the first page, and one that completes the first page.     *)
CopyArgsInSlot ==
    {<<Add32(flash_ctrl_get_kf_start_address, SizeofHeader), 300>>,
     <<Add32(flash_ctrl_get_kf_start_address, SizeofHeader), 100>>,
     <<Add32(flash_ctrl_get_kf_start_address, SizeofHeader + 100), 124>>}

(* copyToROM arguments the validation is written for: dest below kf_start, *)
(* dest at kf_end, a range running past kf_end, a size above slot_size, a  *)
(* range running from the first slot into the second.                      *)
CopyArgsOutside ==
    {<<Sub32(flash_ctrl_get_kf_start_address, 4), 8>>,
     <<flash_ctrl_get_kf_end_address, 8>>,
     <<Sub32(flash_ctrl_get_kf_end_address, 4), 8>>,
     <<Add32(flash_ctrl_get_kf_start_address, SizeofHeader),
       llkernel_get_feature_slot_size_rom_bytes + 4>>,
     <<Add32(flash_ctrl_get_kf_start_address,
             llkernel_get_feature_slot_size_rom_bytes - 4), 8>>}

CopyArgs == CopyArgsInSlot \cup CopyArgsOutside

(* copyToROM arguments that end with the ROM image of the largest feature  *)
(* the first slot holds (rom_size = slot_size - sizeof(feature_header_t)): *)
(* the whole image in one transfer, and its last 100 bytes.                *)
CopyArgsImage ==
    {<<Add32(flash_ctrl_get_kf_start_address, SizeofHeader),
       llkernel_get_feature_slot_size_rom_bytes - SizeofHeader>>,
     <<Add32(flash_ctrl_get_kf_start_address,
             llkernel_get_feature_slot_size_rom_bytes - 100), 100>>}

(* The pages whose first bytes the model follows: the header page of each  *)
(* slot and the pages the transfers of CopyArgsInSlot reach.               *)
Pages ==
    SlotAddrs \cup
    UNION {{flash_ctrl_get_page_address(a[1]),
            flash_ctrl_get_page_address(Add32(a[1], a[2] - 1))} :
           a \in CopyArgsInSlot}

----------------------------------------------------------------------------
(* Operations                                                              *)

(* After construction: the static initialisers of LLKERNEL_flash.c, an     *)
(* erased KF area, memory-mapped mode enabled by flash_ctrl_startup.       *)
Boot(fl) ==
    /\ flash = fl
    /\ mem_writeBuffer = ZeroHeader
    /\ target_page_address = NULL
    /\ mem_writeBuffer_offset = 0
    /\ last_feature_ptr = NULL
    /\ nb_features = 0
    /\ mmap = TRUE

(* A public call is made: one less is left to the run.                     *)
NoLimit == 0 - 1

CallMade ==
    /\ calls_left # 0
    /\ calls_left' = IF calls_left < 0 THEN calls_left ELSE calls_left - 1
    /\ UNCHANGED kf_block_size

Init ==
    /\ kf_block_size = LLKERNEL_KF_BLOCK_SIZE
    /\ Boot([p \in Pages |-> ErasedHeader])
    /\ call = NoCall
    /\ calls_left = NoLimit

(* The return of a public call: the record of the call and the mode the    *)
(* controller is left in.                                                  *)
Returned(rec, ev) ==
    \E made \in {ev} :
        /\ call' = [rec EXCEPT !.ev = made,
                               !.erases = CallsOf(made, "erase"),
                               !.writes = CallsOf(made, "write"),
                               !.mmap_before = mmap,
                               !.target_before = target_page_address,
                               !.offset_before = mem_writeBuffer_offset]
        /\ mmap' = ModeAfter(mmap, made)
        /\ CallMade

(* The restart of the device after a power loss: flash keeps what it held, *)
(* the statics take their initial values, flash_ctrl_startup enables the   *)
(* memory-mapped mode.                                                     *)
Restart(fl, rec, ev) ==
    /\ flash' = fl
    /\ mem_writeBuffer' = ZeroHeader
    /\ target_page_address' = NULL
    /\ mem_writeBuffer_offset' = 0
    /\ last_feature_ptr' = NULL
    /\ nb_features' = 0
    /\ mmap' = TRUE
    /\ call' = [rec EXCEPT !.ev = ev,
                           !.erases = CallsOf(ev, "erase"),
                           !.writes = CallsOf(ev, "write"),
                           !.mmap_before = mmap]
    /\ CallMade

(* int32_t LLKERNEL_IMPL_getAllocatedFeaturesCount(void)                   *)
GetAllocatedFeaturesCount(fail) ==
    \E c \in {CountFeatures(flash, fail)} :
        \E rec \in {[NoCall EXCEPT !.op = "count", !.result = c.nb_features,
                                   !.nb_before = nb_features, !.fail = fail,
                                   !.prev_op = call.op,
                                   !.interrupted =
                                       IF fail = {} THEN call.interrupted ELSE NULL]} :
            IF c.power_lost
            THEN Restart(c.flash, [rec EXCEPT !.op = "power_loss_count", !.result = 0],
                         c.ev)
            ELSE /\ flash' = c.flash
                 /\ nb_features' = c.nb_features
                 /\ last_feature_ptr' = c.last_feature_ptr
                 /\ Returned(rec, c.ev)
                 /\ UNCHANGED <<mem_writeBuffer, target_page_address,
                                mem_writeBuffer_offset>>

(* The body of freeFeature: the flash, the staging page and nb_features it *)
(* leaves, its calls, and whether the supply was lost between its erase    *)
(* and its page write.                                                     *)
FreeOutcome(handle, fail) ==
    LET feature_ptr == handle
        staged == [[f \in PageWords |->
                       IF FieldOffset[f] + 4 <= SizeofHeader
                       THEN flash[feature_ptr][f]
                       ELSE mem_writeBuffer[f]]
                   EXCEPT !.status = LLKERNEL_FEATURE_REMOVED_MAGIC_NUMBER,
                          !.nb_subsectors = 1]
        erased == IF "erase" \in fail
                  THEN flash
                  ELSE flash_ctrl_erase_subsector(flash, handle)
    IN  IF ~is_feature_used(flash[feature_ptr].status)
        THEN [flash |-> flash, buf |-> mem_writeBuffer, nb_features |-> nb_features,
              ev |-> <<MappedRead(feature_ptr)>>, power_lost |-> FALSE]
        ELSE IF "power" \in fail
        THEN [flash |-> erased, buf |-> staged, nb_features |-> nb_features,
              ev |-> <<MappedRead(feature_ptr), MappedRead(feature_ptr),
                       flash_ctrl_disable_memory_mapped_mode,
                       EraseCall(handle, fail)>>,
              power_lost |-> TRUE]
        ELSE [flash |-> IF "write" \in fail
                        THEN erased
                        ELSE flash_ctrl_page_write(erased, staged, feature_ptr,
                                                   SizeofPointer),
              buf |-> staged,
              nb_features |-> Sub32(nb_features, 1),
              ev |-> <<MappedRead(feature_ptr), MappedRead(feature_ptr),
                       flash_ctrl_disable_memory_mapped_mode,
                       EraseCall(handle, fail),
                       WriteCall(feature_ptr, fail),
                       flash_ctrl_enable_memory_mapped_mode>>,
              power_lost |-> FALSE]

(* The return of freeFeature to its caller.                                *)
FreeReturns(o, rec) ==
    IF o.power_lost
    THEN Restart(o.flash, [rec EXCEPT !.op = "power_loss_free"], o.ev)
    ELSE /\ flash' = o.flash
         /\ mem_writeBuffer' = o.buf
         /\ nb_features' = o.nb_features
         /\ Returned(rec, o.ev)
         /\ UNCHANGED <<last_feature_ptr, target_page_address, mem_writeBuffer_offset>>

(* void LLKERNEL_IMPL_freeFeature(int32_t handle)                          *)
FreeFeature(handle, fail) ==
    \E o \in {FreeOutcome(handle, fail)} :
        FreeReturns(o, [NoCall EXCEPT !.op = "free", !.handle = handle,
                                      !.nb_before = nb_features,
                                      !.header_before = flash[handle],
                                      !.fail = fail])

(* The codes of a feature initialization failure, and those on which       *)
(* onFeatureInitializationError uninstalls the feature.                    *)
LLKERNEL_FEATURE_INIT_ERROR_CORRUPTED_CONTENT == "CORRUPTED_CONTENT"

LLKERNEL_FEATURE_INIT_ERROR_INCOMPATIBLE_KERNEL_WRONG_UID ==
    "INCOMPATIBLE_KERNEL_WRONG_UID"

LLKERNEL_FEATURE_INIT_ERROR_INCOMPATIBLE_KERNEL_WRONG_ADDRESSES ==
    "INCOMPATIBLE_KERNEL_WRONG_ADDRESSES"

InitErrorCodes ==
    {LLKERNEL_FEATURE_INIT_ERROR_CORRUPTED_CONTENT,
     LLKERNEL_FEATURE_INIT_ERROR_INCOMPATIBLE_KERNEL_WRONG_UID,
     "TOO_MANY_INSTALLED", "ALREADY_INSTALLED",
     LLKERNEL_FEATURE_INIT_ERROR_INCOMPATIBLE_KERNEL_WRONG_ADDRESSES,
     "ROM_OVERLAP", "RAM_OVERLAP", "RAM_ADDRESS_CHANGED"}

(* A handler that uninstalls the feature on corrupted content only.        *)
UninstallOnCorruptedOnly == {LLKERNEL_FEATURE_INIT_ERROR_CORRUPTED_CONTENT}

(* The cases of the switch that call freeFeature.                          *)
UninstallingCodes ==
    {LLKERNEL_FEATURE_INIT_ERROR_CORRUPTED_CONTENT,
     LLKERNEL_FEATURE_INIT_ERROR_INCOMPATIBLE_KERNEL_WRONG_UID,
     LLKERNEL_FEATURE_INIT_ERROR_INCOMPATIBLE_KERNEL_WRONG_ADDRESSES}

(* int32_t LLKERNEL_IMPL_onFeatureInitializationError(int32_t handle,      *)
(*                                                    int32_t error_code)  *)
OnFeatureInitializationError(handle, error_code, fail) ==
    \E rec \in {[NoCall EXCEPT !.op = "init_error", !.handle = handle,
                               !.error_code = error_code,
                               !.nb_before = nb_features,
                               !.header_before = flash[handle],
                               !.fail = fail, !.result = LLKERNEL_OK]} :
        IF error_code \in UninstallingCodes
        THEN \E o \in {FreeOutcome(handle, fail)} : FreeReturns(o, rec)
        ELSE /\ Returned(rec, <<>>)
             /\ UNCHANGED <<flash, mem_writeBuffer, nb_features, last_feature_ptr,
                            target_page_address, mem_writeBuffer_offset>>

(* A getFeatureHandle without the test of allocation_index on nb_features. *)
AnyIndexInRange(allocation_index, nb) == TRUE

(* getFeatureHandle: the test of allocation_index on nb_features.          *)
IndexInRange(allocation_index, nb) == ULt(allocation_index, nb)

(* getFeatureHandle: the walk from feature_ptr, up to the USED header with *)
(* that index, a FREE slot or the last slot.                               *)
RECURSIVE HandleFrom(_, _, _)
HandleFrom(fl, feature_ptr, allocation_index) ==
    IF /\ ~is_feature_used(fl[feature_ptr].status)
       /\ ~is_feature_removed(fl[feature_ptr].status)
    THEN 0
    ELSE IF /\ is_feature_used(fl[feature_ptr].status)
            /\ fl[feature_ptr].feature_index = allocation_index
         THEN feature_ptr
         ELSE IF llkernel_get_next_feature(feature_ptr) = NULL
              THEN 0
              ELSE HandleFrom(fl, llkernel_get_next_feature(feature_ptr),
                              allocation_index)

(* The header reads of that walk.                                          *)
RECURSIVE HandleReads(_, _, _)
HandleReads(fl, feature_ptr, allocation_index) ==
    <<MappedRead(feature_ptr)>> \o
        (IF \/ /\ ~is_feature_used(fl[feature_ptr].status)
               /\ ~is_feature_removed(fl[feature_ptr].status)
            \/ /\ is_feature_used(fl[feature_ptr].status)
               /\ fl[feature_ptr].feature_index = allocation_index
            \/ llkernel_get_next_feature(feature_ptr) = NULL
         THEN <<>>
         ELSE HandleReads(fl, llkernel_get_next_feature(feature_ptr),
                          allocation_index))

(* getFeatureHandle as a function of the flash and nb_features.            *)
FeatureHandle(fl, nb, allocation_index) ==
    IF IndexInRange(allocation_index, nb)
    THEN HandleFrom(fl, flash_ctrl_get_kf_start_address, allocation_index)
    ELSE 0

(* A call that reads the catalog and changes nothing.                      *)
Queried(rec, ev) ==
    /\ Returned(rec, ev)
    /\ UNCHANGED <<flash, mem_writeBuffer, nb_features, last_feature_ptr,
                   target_page_address, mem_writeBuffer_offset>>

(* int32_t LLKERNEL_IMPL_getFeatureHandle(int32_t allocation_index)        *)
GetFeatureHandle(allocation_index) ==
    Queried([NoCall EXCEPT !.op = "get_handle",
                           !.allocation_index = allocation_index,
                           !.nb_before = nb_features,
                           !.result = FeatureHandle(flash, nb_features,
                                                    allocation_index)],
            IF IndexInRange(allocation_index, nb_features)
            THEN HandleReads(flash, flash_ctrl_get_kf_start_address, allocation_index)
            ELSE <<>>)

(* A getter that returns the recorded address whatever the status.         *)
AddressOfAnyStatus(header, address) == address

(* The address getters: the recorded address of a USED header, else NULL.  *)
AddressIfUsed(header, address) ==
    IF is_feature_used(header.status) THEN address ELSE NULL

(* void * LLKERNEL_IMPL_getFeatureAddressRAM(int32_t handle)               *)
GetFeatureAddressRAM(handle) ==
    Queried([NoCall EXCEPT !.op = "get_ram", !.handle = handle,
                           !.header_before = flash[handle],
                           !.result = AddressIfUsed(flash[handle],
                                                    flash[handle].ram_address)],
            <<MappedRead(handle)>>)

(* void * LLKERNEL_IMPL_getFeatureAddressROM(int32_t handle)               *)
GetFeatureAddressROM(handle) ==
    Queried([NoCall EXCEPT !.op = "get_rom", !.handle = handle,
                           !.header_before = flash[handle],
                           !.result = AddressIfUsed(flash[handle],
                                                    flash[handle].rom_address)],
            <<MappedRead(handle)>>)

(* The erase loop of allocateFeature: every subsector from address up to   *)
(* end (rom_address + rom_size), counted in nb_subsectors.                 *)
RECURSIVE EraseLoop(_, _, _, _)
EraseLoop(fl, address, end, nb_subsectors) ==
    IF ULt(address, end)
    THEN EraseLoop(flash_ctrl_erase_subsector(fl, address),
                   Add32(address, flash_ctrl_get_subsector_size),
                   end, nb_subsectors + 1)
    ELSE [flash |-> fl, nb_subsectors |-> nb_subsectors]

(* An erase loop that erases the first subsector of the slot only.         *)
EraseFirstSubsector(address, nb_subsectors, fail) ==
    <<EraseCall(address, fail)>>

(* The erase calls of that loop: it stops at a refusal.                    *)
EraseLoopCalls(address, nb_subsectors, fail) ==
    [k \in 1..nb_subsectors |->
        EraseCall(Add32(address, (k - 1) * flash_ctrl_get_subsector_size), fail)]

(* The ROM size check of allocateFeature (ROM_TOO_LARGE).                  *)
RomTooLarge(size_ROM) ==
    ULt(llkernel_get_feature_slot_size_rom_bytes, Add32(size_ROM, SizeofPointer))

(* A RAM size check that refuses a request of the whole buffer.            *)
RamAtLeastBuffer(size_RAM) == ULe(LLKERNEL_RAM_BUFFER_SIZE, size_RAM)

(* The RAM size check of allocateFeature (RAM_TOO_LARGE).                  *)
RamTooLarge(size_RAM) == ULt(LLKERNEL_RAM_BUFFER_SIZE, size_RAM)

(* The RAM arena: the reuse test on the target slot's header.              *)
RamReusable(header, size_RAM) ==
    /\ is_feature_removed(header.status)
    /\ ULe(kernel_ram_buffer, header.ram_address)
    /\ ULt(header.ram_address, Add32(kernel_ram_buffer, LLKERNEL_RAM_BUFFER_SIZE))
    /\ ULe(size_RAM, header.ram_size)

(* The RAM arena: the address after the last USED feature.                 *)
NextRamAddress(last_header) ==
    llkernel_get_next_aligned_ram_address(
        Add32(last_header.ram_address, last_header.ram_size))

(* The RAM arena: the overflow test on a fresh address (RAM_OVERFLOW).     *)
RamOverflow(current_ram_address) ==
    ULt(Add32(kernel_ram_buffer, LLKERNEL_RAM_BUFFER_SIZE - 1), current_ram_address)

(* The body of allocateFeature: the flash, the staging page and the catalog *)
(* statics it leaves, the record and the calls of the call, and whether    *)
(* the supply was lost in it.                                              *)
AllocateOutcome(size_ROM, size_RAM, fail) ==
    LET precheck == /\ 0 # kernel_max_nb_dynamic_features
                    /\ ~RomTooLarge(size_ROM)
                    /\ ~RamTooLarge(size_RAM)
        c == CountFeatures(flash, fail \ PowerLoss)
        current_feature_address == llkernel_get_free_feature_slot(c.flash)
        target == c.flash[current_feature_address]
        reuse == RamReusable(target, size_RAM)
        current_ram_address ==
            IF NULL = c.last_feature_ptr
            THEN kernel_ram_buffer
            ELSE IF reuse
                 THEN target.ram_address
                 ELSE NextRamAddress(c.flash[c.last_feature_ptr])
        rom_address == Add32(current_feature_address, SizeofHeader)
        erase_refused == "erase" \in fail
                         /\ ULt(current_feature_address, Add32(rom_address, size_ROM))
        e == IF erase_refused
             THEN [flash |-> c.flash, nb_subsectors |-> 1]
             ELSE EraseLoop(c.flash, current_feature_address,
                            Add32(rom_address, size_ROM), 0)
        located == [mem_writeBuffer EXCEPT
                       !.rom_address = rom_address,
                       !.rom_size = size_ROM]
        staged == [located EXCEPT
                      !.nb_subsectors = e.nb_subsectors,
                      !.ram_address = current_ram_address,
                      !.ram_size = size_RAM,
                      !.status = LLKERNEL_FEATURE_USED_MAGIC_NUMBER,
                      !.tail = AllOnes,
                      !.feature_index = c.nb_features]
        ev_slot == c.ev \o FreeSlotReads(c.flash, flash_ctrl_get_kf_start_address)
        ev_ram == ev_slot \o
                  (IF NULL = c.last_feature_ptr
                   THEN <<>>
                   ELSE <<MappedRead(current_feature_address)>> \o
                        (IF reuse THEN <<>> ELSE <<MappedRead(c.last_feature_ptr)>>))
        ev_erase == ev_ram \o <<flash_ctrl_disable_memory_mapped_mode>>
                    \o EraseLoopCalls(current_feature_address, e.nb_subsectors, fail)
                    \o <<flash_ctrl_enable_memory_mapped_mode>>
        ev_header == ev_erase \o <<flash_ctrl_disable_memory_mapped_mode,
                                   WriteCall(current_feature_address, fail),
                                   flash_ctrl_enable_memory_mapped_mode>>
        rec(res, errs) ==
            [NoCall EXCEPT !.op = "allocate", !.size_ROM = size_ROM,
                           !.size_RAM = size_RAM, !.result = res,
                           !.handle = res,
                           !.nb_before = nb_features,
                           !.header_before =
                               IF res = 0 THEN ErasedHeader ELSE target,
                           !.errors = errs, !.fail = fail,
                           !.slot = IF precheck THEN current_feature_address ELSE NULL,
                           !.counted = IF precheck THEN c.nb_features ELSE nb_features,
                           !.scanned = IF ~precheck
                                        THEN 0
                                        ELSE IF NULL = current_feature_address
                                             THEN Len(ev_slot)
                                             ELSE Len(ev_ram),
                           !.resumed = call.interrupted]
        done(fl, buf, last, nb, res, errs, ev) ==
            [flash |-> fl, buf |-> buf, last_feature_ptr |-> last,
             nb_features |-> nb, rec |-> rec(res, errs), ev |-> ev,
             power_lost |-> FALSE]
    IN  IF ~precheck
        THEN done(flash, mem_writeBuffer, last_feature_ptr, nb_features, 0,
                  (IF 0 = kernel_max_nb_dynamic_features
                   THEN {"CONFIG_MAX_FEATURES_ZERO"} ELSE {})
                  \cup (IF RomTooLarge(size_ROM) THEN {"ROM_TOO_LARGE"} ELSE {})
                  \cup (IF RamTooLarge(size_RAM) THEN {"RAM_TOO_LARGE"} ELSE {}),
                  <<>>)
        ELSE IF NULL = current_feature_address
        THEN done(c.flash, mem_writeBuffer, c.last_feature_ptr, c.nb_features, 0,
                  {"TOO_MANY_FEATURES"}, ev_slot)
        ELSE IF NULL # c.last_feature_ptr /\ ~reuse /\ RamOverflow(current_ram_address)
        THEN done(c.flash, mem_writeBuffer, c.last_feature_ptr, c.nb_features, 0,
                  {"RAM_OVERFLOW"}, ev_ram)
        ELSE IF erase_refused
        THEN done(c.flash, located, c.last_feature_ptr, c.nb_features, 0,
                  {"FLASH_ERASE"}, ev_erase)
        ELSE IF "power" \in fail
        THEN [done(e.flash, located, c.last_feature_ptr, c.nb_features, 0, {},
                   ev_erase)
              EXCEPT !.rec = [@ EXCEPT !.op = "power_loss",
                                       !.handle = current_feature_address,
                                       !.interrupted = current_feature_address,
                                       !.resumed = NULL],
                     !.power_lost = TRUE]
        ELSE IF "write" \in fail
        THEN done(e.flash, staged, c.last_feature_ptr, c.nb_features, 0,
                  {"FLASH_WRITE"}, ev_header)
        ELSE done(flash_ctrl_page_write(e.flash, staged, current_feature_address,
                                        flash_ctrl_get_page_size),
                  staged, current_feature_address, Add32(c.nb_features, 1),
                  current_feature_address, {}, ev_header)

(* int32_t LLKERNEL_IMPL_allocateFeature(int32_t size_ROM, int32_t size_RAM) *)
AllocateFeature(size_ROM, size_RAM, fail) ==
    \E o \in {AllocateOutcome(size_ROM, size_RAM, fail)} :
        IF o.power_lost
        THEN Restart(o.flash, o.rec, o.ev)
        ELSE /\ flash' = o.flash
             /\ mem_writeBuffer' = o.buf
             /\ last_feature_ptr' = o.last_feature_ptr
             /\ nb_features' = o.nb_features
             /\ Returned(o.rec, o.ev)
             /\ UNCHANGED <<target_page_address, mem_writeBuffer_offset>>

(* Unsigned division of a 32-bit word by d, 0 < d < 2^30.                  *)
UDiv(a, d) ==
    IF a >= 0
    THEN a \div d
    ELSE LET half == ((a \div 2) + 16384 * Half) + 16384 * Half
         IN  2 * (half \div d)
             + (IF 2 * (half % d) + (a % 2) >= d THEN 1 ELSE 0)

(* A copyToROM without the slot test on the two ends of the range.         *)
NoSlotTest(dest, size) == FALSE

(* The argument checks of copyToROM.                                       *)
CopyOutsideArea(dest) ==
    \/ ULt(dest, flash_ctrl_get_kf_start_address)
    \/ ULe(flash_ctrl_get_kf_end_address, dest)

CopyBeyondEnd(dest, size) ==
    ULt(flash_ctrl_get_kf_end_address, Add32(dest, size))

CopyTooLarge(size) == ULt(llkernel_get_feature_slot_size_rom_bytes, size)

CopyOverlapsSlot(dest, size) ==
    /\ 0 # llkernel_get_feature_slot_size_rom_bytes
    /\ UDiv(Sub32(dest, flash_ctrl_get_kf_start_address),
            llkernel_get_feature_slot_size_rom_bytes)
       # UDiv(Sub32(Add32(dest, size), flash_ctrl_get_kf_start_address),
              llkernel_get_feature_slot_size_rom_bytes)

CopyRejected(dest, size) ==
    \/ CopyOutsideArea(dest)
    \/ CopyBeyondEnd(dest, size)
    \/ CopyTooLarge(size)
    \/ CopyOverlapsSlot(dest, size)

(* A flushCopyToROM that keeps the page pending when its program is        *)
(* refused.                                                                *)
FlushKeepsRefusedPage(st, fail) ==
    IF st.target # NULL
    THEN IF "write" \in fail
         THEN [st EXCEPT
                  !.ev = @ \o <<flash_ctrl_disable_memory_mapped_mode,
                                WriteCall(st.target, fail),
                                flash_ctrl_enable_memory_mapped_mode>>,
                  !.result = LLKERNEL_ERROR]
         ELSE [st EXCEPT
                  !.flash = flash_ctrl_page_write(@, st.buf, st.target,
                                                  flash_ctrl_get_page_size),
                  !.ev = @ \o <<flash_ctrl_disable_memory_mapped_mode,
                                WriteCall(st.target, fail),
                                flash_ctrl_enable_memory_mapped_mode>>,
                  !.result = LLKERNEL_OK,
                  !.target = NULL,
                  !.offset = 0]
    ELSE [st EXCEPT !.result = LLKERNEL_OK]

(* A flushCopyToROM that returns ERROR as soon as its program is refused,  *)
(* before it enables the memory-mapped mode.                               *)
FlushReturnsAtRefusal(st, fail) ==
    IF st.target # NULL
    THEN [st EXCEPT
             !.flash = IF "write" \in fail
                       THEN @
                       ELSE flash_ctrl_page_write(@, st.buf, st.target,
                                                  flash_ctrl_get_page_size),
             !.ev = @ \o <<flash_ctrl_disable_memory_mapped_mode,
                           WriteCall(st.target, fail)>>
                      \o (IF "write" \in fail
                          THEN <<>>
                          ELSE <<flash_ctrl_enable_memory_mapped_mode>>),
             !.result = IF "write" \in fail THEN LLKERNEL_ERROR ELSE LLKERNEL_OK,
             !.target = NULL,
             !.offset = 0]
    ELSE [st EXCEPT !.result = LLKERNEL_OK]

(* The streamer works on st: the pages, the staging page (buf), the        *)
(* pending page (target, offset), the calls made and the result so far.    *)

(* The body of flushCopyToROM.                                             *)
FlushPendingPage(st, fail) ==
    IF st.target # NULL
    THEN [st EXCEPT
             !.flash = IF "write" \in fail
                       THEN @
                       ELSE flash_ctrl_page_write(@, st.buf, st.target,
                                                  flash_ctrl_get_page_size),
             !.ev = @ \o <<flash_ctrl_disable_memory_mapped_mode,
                           WriteCall(st.target, fail),
                           flash_ctrl_enable_memory_mapped_mode>>,
             !.result = IF "write" \in fail THEN LLKERNEL_ERROR ELSE LLKERNEL_OK,
             !.target = NULL,
             !.offset = 0]
    ELSE [st EXCEPT !.result = LLKERNEL_OK]

(* copyToROM: what it does with the page left pending by the last call.    *)
CarryOver(st, dest, fail) ==
    IF st.target = NULL
    THEN st
    ELSE LET new_offset == Sub32(dest, st.target)
         IN  IF /\ ULt(st.offset, new_offset)
                /\ ULt(new_offset, flash_ctrl_get_page_size)
             THEN [st EXCEPT !.offset = new_offset]
             ELSE IF new_offset # st.offset
                  THEN FlushPendingPage(st, fail)
                  ELSE st

(* copyToROM: the staging page after copy_size source bytes are stored at  *)
(* buffer_offset; a word of the page is followed when it is stored whole.  *)
StoreImage(page, buffer_offset, copy_size) ==
    [f \in PageWords |->
        IF /\ buffer_offset <= FieldOffset[f]
           /\ FieldOffset[f] + 4 <= buffer_offset + copy_size
        THEN ImageWord
        ELSE page[f]]

(* A copyToROM that compares the programmed page without enabling the     *)
(* memory-mapped mode.                                                     *)
CompareWithoutEnable(st, buf, page_address, ev) ==
    [st EXCEPT
        !.flash = flash_ctrl_page_write(@, buf, page_address,
                                        flash_ctrl_get_page_size),
        !.buf = buf,
        !.ev = ev \o <<WriteCall(page_address, {}),
                       MappedRead(page_address)>>]

(* copyToROM: a page that has been filled is programmed and compared; the  *)
(* pending page is left as it is.                                          *)
ProgramFilledPage(st, buf, page_address, ev) ==
    [st EXCEPT
        !.flash = flash_ctrl_page_write(@, buf, page_address,
                                        flash_ctrl_get_page_size),
        !.buf = buf,
        !.ev = ev \o <<WriteCall(page_address, {}),
                       flash_ctrl_enable_memory_mapped_mode,
                       MappedRead(page_address),
                       flash_ctrl_disable_memory_mapped_mode>>]

(* copyToROM: a page that is not filled stays pending.                     *)
KeepPartialPage(st, buf, page_address, filled, ev) ==
    [st EXCEPT !.buf = buf, !.target = page_address, !.offset = filled, !.ev = ev]

(* copyToROM: the read-back of the page a transfer starts inside.  A page  *)
(* the model does not follow reads as erased.                              *)
ReadPage(fl, page_address) ==
    IF page_address \in DOMAIN fl THEN fl[page_address] ELSE ErasedHeader

(* The while loop of copyToROM.                                            *)
RECURSIVE CopyLoop(_, _, _, _)
CopyLoop(st, dest_ptr, remaining, fail) ==
    IF ~ULt(0, remaining)
    THEN st
    ELSE LET page_address == flash_ctrl_get_page_address(dest_ptr)
             buffer_offset == Sub32(dest_ptr, page_address)
             room == flash_ctrl_get_page_size - buffer_offset
             copy_size == IF ULt(remaining, room) THEN remaining ELSE room
             read_back == st.target = NULL /\ 0 # buffer_offset
             buf == StoreImage(IF read_back THEN ReadPage(st.flash, page_address)
                                            ELSE st.buf,
                               buffer_offset, copy_size)
             ev == st.ev \o
                   (IF read_back
                    THEN <<flash_ctrl_enable_memory_mapped_mode,
                           MappedRead(page_address),
                           flash_ctrl_disable_memory_mapped_mode>>
                    ELSE <<>>)
         IN  IF copy_size + buffer_offset = flash_ctrl_get_page_size
             THEN IF "write" \in fail
                  THEN [st EXCEPT !.buf = buf,
                                  !.ev = ev \o <<WriteCall(page_address, fail)>>,
                                  !.result = LLKERNEL_ERROR]
                  ELSE CopyLoop(ProgramFilledPage(st, buf, page_address, ev),
                                Add32(dest_ptr, copy_size),
                                Sub32(remaining, copy_size), fail)
             ELSE CopyLoop(KeepPartialPage(st, buf, page_address,
                                           copy_size + buffer_offset, ev),
                           Add32(dest_ptr, copy_size),
                           Sub32(remaining, copy_size), fail)

(* The streamer's view of the current state.                               *)
Streamer ==
    [flash |-> flash, buf |-> mem_writeBuffer, target |-> target_page_address,
     offset |-> mem_writeBuffer_offset, ev |-> <<>>, result |-> LLKERNEL_OK]

StreamerReturns(st, rec) ==
    /\ flash' = st.flash
    /\ mem_writeBuffer' = st.buf
    /\ target_page_address' = st.target
    /\ mem_writeBuffer_offset' = st.offset
    /\ Returned([rec EXCEPT !.result = st.result], st.ev)
    /\ UNCHANGED <<last_feature_ptr, nb_features>>

(* The body of copyToROM on the streamer's state.                           *)
CopyOutcome(dest, size, fail) ==
    LET checked == IF CopyRejected(dest, size)
                   THEN [Streamer EXCEPT !.result = LLKERNEL_ERROR]
                   ELSE CarryOver(Streamer, dest, fail)
        copied == IF checked.result = LLKERNEL_OK
                  THEN [CopyLoop([checked EXCEPT
                                     !.ev = @ \o <<flash_ctrl_disable_memory_mapped_mode>>],
                                 dest, size, fail)
                        EXCEPT !.ev = @ \o <<flash_ctrl_enable_memory_mapped_mode>>]
                  ELSE checked
    IN  copied

(* int32_t LLKERNEL_IMPL_copyToROM(void *dest_address_ROM, void *src_address, *)
(*                                 int32_t size)                              *)
CopyToROM(dest, size, fail) ==
    \E copied \in {CopyOutcome(dest, size, fail)} :
        StreamerReturns(copied,
                        [NoCall EXCEPT !.op = "copy", !.dest = dest, !.size = size,
                                       !.fail = fail])

(* int32_t LLKERNEL_IMPL_flushCopyToROM(void)                              *)
FlushCopyToROM(fail) ==
    \E flushed \in {FlushPendingPage(Streamer, fail)} :
        StreamerReturns(flushed, [NoCall EXCEPT !.op = "flush", !.fail = fail])

(* The catalog operations with every flash call succeeding.                *)
Next ==
    \/ GetAllocatedFeaturesCount({})
    \/ \E handle \in Handles : FreeFeature(handle, {})
    \/ \E size_ROM \in SizesROM, size_RAM \in SizesRAM :
           AllocateFeature(size_ROM, size_RAM, {})

Spec == Init /\ [][Next]_vars

(* The RAM arena under three requests of 40 KiB.                           *)
SizesRAM40K == {40 * 1024}

NextRam ==
    \/ GetAllocatedFeaturesCount({})
    \/ \E handle \in Handles : FreeFeature(handle, {})
    \/ \E size_RAM \in SizesRAM40K :
           AllocateFeature(llkernel_get_feature_slot_size_rom_bytes - SizeofHeader,
                           size_RAM, {})

SpecRam == Init /\ [][NextRam]_vars

(* The catalog in a KF area of six subsectors and in one of seven.         *)
KFBlockSizes == {LLKERNEL_KF_BLOCK_SIZE,
                 LLKERNEL_KF_BLOCK_SIZE + LLKERNEL_FLASH_SUBSECTOR_SIZE}

SizesRAM16K == {16 * 1024}

InitGeometry ==
    /\ kf_block_size \in KFBlockSizes
    /\ Boot([p \in Pages |-> ErasedHeader])
    /\ call = NoCall
    /\ calls_left = NoLimit

NextGeometry ==
    \/ GetAllocatedFeaturesCount({})
    \/ \E handle \in Handles : FreeFeature(handle, {})
    \/ \E size_RAM \in SizesRAM16K :
           AllocateFeature(llkernel_get_feature_slot_size_rom_bytes - SizeofHeader,
                           size_RAM, {})

SpecGeometry == InitGeometry /\ [][NextGeometry]_vars

(* The catalog and the streamer together, with the device refusing calls   *)
(* and the supply failing in allocateFeature, over runs of MaxCalls public *)
(* calls.                                                                  *)
MaxCalls == 5

SizesRAM32K == {32 * 1024}

InitStream ==
    /\ kf_block_size = LLKERNEL_KF_BLOCK_SIZE
    /\ Boot([p \in Pages |-> ErasedHeader])
    /\ call = NoCall
    /\ calls_left = MaxCalls

NextStream ==
    \/ \E fail \in FlashFaults : GetAllocatedFeaturesCount(fail)
    \/ \E handle \in Handles, fail \in FlashFaults : FreeFeature(handle, fail)
    \/ \E size_RAM \in SizesRAM32K, fail \in FlashFaults \cup {PowerLoss} :
           AllocateFeature(llkernel_get_feature_slot_size_rom_bytes - SizeofHeader,
                           size_RAM, fail)
    \/ \E a \in CopyArgs, fail \in FlashFaults : CopyToROM(a[1], a[2], fail)
    \/ \E fail \in FlashFaults : FlushCopyToROM(fail)

SpecStream == InitStream /\ [][NextStream]_vars

(* Every public call with the device accepting every flash call, over runs *)
(* of MaxCallsAll public calls.                                            *)
MaxCallsAll == 5

AllocationIndexes == (0 - 1)..kernel_max_nb_dynamic_features

InitAll ==
    /\ kf_block_size = LLKERNEL_KF_BLOCK_SIZE
    /\ Boot([p \in Pages |-> ErasedHeader])
    /\ call = NoCall
    /\ calls_left = MaxCallsAll

NextAll ==
    \/ GetAllocatedFeaturesCount({})
    \/ \E handle \in Handles : FreeFeature(handle, {})
    \/ \E size_RAM \in SizesRAM32K :
           AllocateFeature(llkernel_get_feature_slot_size_rom_bytes - SizeofHeader,
                           size_RAM, {})
    \/ \E a \in CopyArgsInSlot : CopyToROM(a[1], a[2], {})
    \/ FlushCopyToROM({})
    \/ \E allocation_index \in AllocationIndexes : GetFeatureHandle(allocation_index)
    \/ \E handle \in Handles : GetFeatureAddressRAM(handle)
    \/ \E handle \in Handles : GetFeatureAddressROM(handle)
    \/ \E handle \in Handles, error_code \in InitErrorCodes :
           OnFeatureInitializationError(handle, error_code, {})

SpecAll == InitAll /\ [][NextAll]_vars

(* The catalog with the supply failing in count, allocateFeature and       *)
(* freeFeature, over runs of MaxCallsPower public calls.                   *)
MaxCallsPower == 6

InitPower ==
    /\ kf_block_size = LLKERNEL_KF_BLOCK_SIZE
    /\ Boot([p \in Pages |-> ErasedHeader])
    /\ call = NoCall
    /\ calls_left = MaxCallsPower

NextPower ==
    \/ \E fail \in {{}, PowerLoss} : GetAllocatedFeaturesCount(fail)
    \/ \E handle \in Handles, fail \in {{}, PowerLoss} : FreeFeature(handle, fail)
    \/ \E size_RAM \in SizesRAM32K, fail \in {{}, PowerLoss} :
           AllocateFeature(llkernel_get_feature_slot_size_rom_bytes - SizeofHeader,
                           size_RAM, fail)
    \/ \E allocation_index \in AllocationIndexes : GetFeatureHandle(allocation_index)

SpecPower == InitPower /\ [][NextPower]_vars

(* The installation of a feature of the largest size: allocateFeature, the *)
(* transfers of its image and the flush, the device accepting every call,  *)
(* over runs of MaxCallsImage public calls.                                *)
MaxCallsImage == 5

InitImage ==
    /\ kf_block_size = LLKERNEL_KF_BLOCK_SIZE
    /\ Boot([p \in Pages |-> ErasedHeader])
    /\ call = NoCall
    /\ calls_left = MaxCallsImage

NextImage ==
    \/ \E size_RAM \in SizesRAM32K :
           AllocateFeature(llkernel_get_feature_slot_size_rom_bytes - SizeofHeader,
                           size_RAM, {})
    \/ \E a \in CopyArgsInSlot \cup CopyArgsImage : CopyToROM(a[1], a[2], {})
    \/ FlushCopyToROM({})

SpecImage == InitImage /\ [][NextImage]_vars

----------------------------------------------------------------------------
(* Observations on a state                                                 *)

IsUsed(h) == is_feature_used(flash[h].status)

IsRemoved(h) == is_feature_removed(flash[h].status)

IsFree(h) == ~IsUsed(h) /\ ~IsRemoved(h)

UsedHeaders == {h \in SlotAddrs : IsUsed(h)}

(* The slots a walk from kf_start visits: up to and with the first FREE.   *)
ScannedSlots ==
    {h \in SlotAddrs : \A g \in SlotAddrs : ULt(g, h) => ~IsFree(g)}

ScannedUsed == UsedHeaders \cap ScannedSlots

RamBufferEnd == Add32(kernel_ram_buffer, LLKERNEL_RAM_BUFFER_SIZE)

RamEnd(h) == Add32(flash[h].ram_address, flash[h].ram_size)

----------------------------------------------------------------------------
(* Claims                                                                  *)

(* C1: the RAM regions [ram_address, ram_address + ram_size) recorded in   *)
(* any two distinct USED headers do not overlap.                           *)
C1_RamRegionsDisjoint ==
    \A h1, h2 \in UsedHeaders :
        h1 # h2 =>
            \/ ULe(RamEnd(h1), flash[h2].ram_address)
            \/ ULe(RamEnd(h2), flash[h1].ram_address)

(* C2: every USED header has a ram_address that is a multiple of RAM_ALIGN *)
(* and lies inside kernel_ram_buffer, and ram_address + ram_size does not  *)
(* exceed the end of kernel_ram_buffer.                                    *)
C2_RamRegionInBuffer ==
    \A h \in UsedHeaders :
        /\ flash[h].ram_address % LLKERNEL_RAM_ALIGN_SIZE = 0
        /\ ULe(kernel_ram_buffer, flash[h].ram_address)
        /\ ULt(flash[h].ram_address, RamBufferEnd)
        /\ ULe(flash[h].ram_address, RamEnd(h))
        /\ ULe(RamEnd(h), RamBufferEnd)

(* C3: every USED header has rom_address equal to its slot base plus the   *)
(* 32-byte header size and rom_size + header size at most slot_size, so    *)
(* the ROM extent ends inside its own slot.                                *)
C3_RomExtentInSlot ==
    \A h \in UsedHeaders :
        /\ flash[h].rom_address = Add32(h, SizeofHeader)
        /\ ULe(flash[h].rom_size, Add32(flash[h].rom_size, SizeofHeader))
        /\ ULe(Add32(flash[h].rom_size, SizeofHeader),
               llkernel_get_feature_slot_size_rom_bytes)
        /\ ULe(Add32(flash[h].rom_address, flash[h].rom_size),
               Add32(h, llkernel_get_feature_slot_size_rom_bytes))

(* C4: nb_features equals the number of USED headers found by walking the  *)
(* slots in position order from kf_start up to the first FREE slot.        *)
C4_CountMatchesScan == nb_features = Cardinality(ScannedUsed)

(* C5: last_feature_ptr is null exactly when nb_features is 0, and when it *)
(* is not null it is the address of a header whose status is USED.         *)
C5_LastFeaturePtr ==
    /\ (last_feature_ptr = NULL) <=> (nb_features = 0)
    /\ last_feature_ptr # NULL =>
           last_feature_ptr \in SlotAddrs /\ IsUsed(last_feature_ptr)

(* C6: after get_allocated_features_count returns, the USED headers taken  *)
(* in slot-position order carry feature_index 0, 1, ..., nb_features-1.    *)
C6_DenseIndicesAfterCount ==
    call.op = "count" =>
        /\ Cardinality(UsedHeaders) = nb_features
        /\ \A h \in UsedHeaders :
               flash[h].feature_index =
                   Cardinality({g \in UsedHeaders : ULt(g, h)})

(* C7: after free_feature(h) of a feature installed with RAM size s, an    *)
(* allocate_feature that reuses h's slot with size_RAM <= s records the    *)
(* ram_address the freed feature had, whichever other features are         *)
(* installed.  Stated on a free directly followed by such an allocate.     *)
C7_RamAddressReused ==
    [][(/\ call.op = "free"
        /\ is_feature_used(call.header_before.status)
        /\ call'.op = "allocate"
        /\ call'.result = call.handle
        /\ ULe(call'.size_RAM, call.header_before.ram_size))
       => flash'[call.handle].ram_address = call.header_before.ram_address]_vars

(* C8: after free_feature(h) on a USED feature the header read back at h   *)
(* has status REMOVED, nb_subsectors 1, and the ram_address and ram_size   *)
(* it had before the free.                                                 *)
C8_RemovedHeaderKeepsRam ==
    (call.op = "free" /\ is_feature_used(call.header_before.status)) =>
        /\ IsRemoved(call.handle)
        /\ flash[call.handle].nb_subsectors = 1
        /\ flash[call.handle].ram_address = call.header_before.ram_address
        /\ flash[call.handle].ram_size = call.header_before.ram_size

(* C9: a successful allocate_feature directly followed by free_feature on  *)
(* the returned handle restores nb_features to its value before the        *)
(* allocate and leaves the slot REMOVED; a second free_feature on the same *)
(* handle changes neither nb_features nor flash.                           *)
C9_AllocateFreeRoundTrip ==
    [][/\ (/\ call.op = "allocate" /\ call.result # 0
           /\ call'.op = "free" /\ call'.handle = call.result)
          => /\ nb_features' = call.nb_before
             /\ is_feature_removed(flash'[call.result].status)
       /\ (/\ call.op = "free" /\ is_feature_used(call.header_before.status)
           /\ call'.op = "free" /\ call'.handle = call.handle)
          => /\ nb_features' = nb_features
             /\ flash' = flash]_vars

(* C10: allocate_feature with size_ROM = slot_size - sizeof(header)        *)
(* succeeds when a slot and the RAM are available, and with size_ROM =     *)
(* slot_size - sizeof(header) + 1 it returns 0 (ROM_TOO_LARGE) without     *)
(* erasing or programming flash.                                           *)
C10_RomSizeBoundary ==
    call.op = "allocate" =>
        /\ call.size_ROM = llkernel_get_feature_slot_size_rom_bytes - SizeofHeader
           => /\ "ROM_TOO_LARGE" \notin call.errors
              /\ call.errors = {} => call.result # 0
        /\ call.size_ROM = llkernel_get_feature_slot_size_rom_bytes - SizeofHeader + 1
           => /\ call.result = 0
              /\ "ROM_TOO_LARGE" \in call.errors
              /\ call.erases = 0
              /\ call.writes = 0

(* C11: with a 100 KiB buffer aligned on 256, of three successive          *)
(* allocate_feature calls asking 40 KiB of RAM each the third returns 0:   *)
(* allocate_feature returns 0 whenever the RAM region it would assign does *)
(* not fit in what is left of kernel_ram_buffer.  Stated as: the region of *)
(* a successful allocate_feature ends inside the buffer.                   *)
C11_RamOverflowRefused ==
    (call.op = "allocate" /\ call.result # 0) =>
        /\ ULe(flash[call.result].ram_address,
               Add32(flash[call.result].ram_address, call.size_RAM))
        /\ ULe(Add32(flash[call.result].ram_address, call.size_RAM), RamBufferEnd)

(* C12: from an erased KF area, whatever its size, no more than            *)
(* max_features slots are ever USED and nb_features never exceeds          *)
(* max_features: the allocate_feature after max_features successful ones   *)
(* returns 0.                                                              *)
C12_AtMostMaxFeatures ==
    /\ Cardinality(UsedHeaders) <= kernel_max_nb_dynamic_features
    /\ ULe(nb_features, kernel_max_nb_dynamic_features)

(* C13: in every reachable state every slot positioned after the first     *)
(* FREE slot is itself FREE.                                               *)
C13_FreeSlotsAreLast ==
    \A g, h \in SlotAddrs : (IsFree(g) /\ ULt(g, h)) => IsFree(h)

C15_MappedModeOnReturn ==
    call.op \in {"count", "allocate", "free", "copy", "flush"} => mmap

(* C15 witness: a copy_to_rom that returns ERROR from inside its loop,     *)
(* where the mode is disabled, after the device refused a page program.    *)
C15_Witness ==
    /\ call.op = "copy"
    /\ call.result = LLKERNEL_ERROR
    /\ \E i \in DOMAIN call.ev : call.ev[i].kind = "write" /\ ~call.ev[i].ok
    /\ mmap

(* The subsectors covering [slot, slot + header + size_ROM).               *)
CoveringSubsectors(slot, size_ROM) ==
    {Add32(slot, k * flash_ctrl_get_subsector_size) :
        k \in 0..((SizeofHeader + size_ROM - 1) \div flash_ctrl_get_subsector_size)}

(* The places of the header program in the calls of an allocate.           *)
HeaderPrograms ==
    {i \in DOMAIN call.ev : i > call.scanned /\ call.ev[i].kind = "write"}

(* C16: in allocate_feature every erase of a subsector covering            *)
(* [slot_base, rom_address + rom_size) precedes the program of the header  *)
(* page and nb_features is incremented only when that program succeeded; a *)
(* power loss after the erases and before the header program leaves the    *)
(* target slot reading FREE, and the allocate_feature that follows, after  *)
(* a count or directly, takes that slot when it succeeds.                  *)
C16_EraseBeforeHeaderProgram ==
    /\ call.op = "allocate" =>
          /\ \A hp \in HeaderPrograms :
                /\ \A a \in CoveringSubsectors(call.slot, call.size_ROM) :
                      \E i \in (call.scanned + 1)..(hp - 1) :
                          /\ call.ev[i].kind = "erase"
                          /\ call.ev[i].addr = a
                          /\ call.ev[i].ok
                /\ \A i \in DOMAIN call.ev : call.ev[i].kind = "erase" => i < hp
                /\ call.ev[hp].addr = call.slot
          /\ nb_features =
                IF \E hp \in HeaderPrograms : call.ev[hp].ok
                THEN Add32(call.counted, 1)
                ELSE call.counted
          /\ call.result # 0 <=> \E hp \in HeaderPrograms : call.ev[hp].ok
          /\ (call.resumed # NULL /\ call.fail = {})
                => /\ call.slot = call.resumed
                   /\ call.result \in {0, call.resumed}
    /\ call.op = "power_loss" =>
          /\ IsFree(call.handle)
          /\ llkernel_get_free_feature_slot(flash) = call.handle

(* C16 witness: an allocate_feature that succeeds in the slot a power loss *)
(* left erased.                                                            *)
C16_Witness ==
    /\ call.op = "allocate"
    /\ call.resumed # NULL
    /\ call.result = call.resumed
    /\ IsUsed(call.result)

(* The arguments C17 is about, read on the numbers: dest outside           *)
(* [kf_start, kf_end), dest + size above kf_end, size above slot_size, or  *)
(* first and last byte in different slots.                                 *)
SlotIndex(address) ==
    UDiv(Sub32(address, flash_ctrl_get_kf_start_address),
         llkernel_get_feature_slot_size_rom_bytes)

RangeRefused(dest, size) ==
    \/ ULt(dest, flash_ctrl_get_kf_start_address)
    \/ ULe(flash_ctrl_get_kf_end_address, dest)
    \/ ULt(Add32(dest, size), dest)
    \/ ULt(flash_ctrl_get_kf_end_address, Add32(dest, size))
    \/ ULt(llkernel_get_feature_slot_size_rom_bytes, size)
    \/ (size # 0 /\ SlotIndex(dest) # SlotIndex(Add32(dest, size - 1)))

(* C17: copy_to_rom returns ERROR and leaves flash, the staging buffer,    *)
(* target_page_address and write_buffer_offset unchanged whenever dest is  *)
(* outside [kf_start, kf_end), dest + size exceeds kf_end, size exceeds    *)
(* slot_size, or the range spans two slots.                                *)
C17_RejectedCopyChangesNothing ==
    [][(call'.op = "copy" /\ RangeRefused(call'.dest, call'.size))
       => /\ call'.result = LLKERNEL_ERROR
          /\ call'.ev = <<>>
          /\ UNCHANGED <<flash, mem_writeBuffer, target_page_address,
                         mem_writeBuffer_offset>>]_vars

(* C17 witness: a copy_to_rom over two slots refused while a page is       *)
(* pending.                                                                *)
C17_Witness ==
    /\ call.op = "copy"
    /\ ~CopyOutsideArea(call.dest)
    /\ SlotIndex(call.dest) # SlotIndex(Add32(call.dest, call.size - 1))
    /\ call.result = LLKERNEL_ERROR
    /\ target_page_address # NULL

(* copy_to_rom(kf_start + 32, 300) with no page pending and the device     *)
(* accepting every call.                                                   *)
Copy300(c) ==
    /\ c.op = "copy"
    /\ c.dest = Add32(flash_ctrl_get_kf_start_address, SizeofHeader)
    /\ c.size = 300
    /\ c.target_before = NULL
    /\ c.fail = {}

(* That call programs one page and keeps the tail pending for page with    *)
(* filled bytes staged; the flush_copy_to_rom that follows programs page.  *)
TailRetained(page, filled) ==
    /\ Copy300(call')
       => /\ call'.result = LLKERNEL_OK
          /\ call'.writes = 1
          /\ target_page_address' = page
          /\ mem_writeBuffer_offset' = filled
    /\ (Copy300(call) /\ call'.op = "flush" /\ call'.fail = {})
       => /\ call'.result = LLKERNEL_OK
          /\ \E i \in DOMAIN call'.ev :
                /\ call'.ev[i].kind = "write"
                /\ call'.ev[i].addr = page
                /\ call'.ev[i].ok
          /\ call'.writes = 1

(* C18 as stated: with page size 256 and no page pending,                  *)
(* copy_to_rom(kf_start + 32, 300) programs one full page and keeps the    *)
(* tail with target_page = kf_start + 288 and write_buffer_offset = 44,    *)
(* and flush_copy_to_rom then programs that tail page.                     *)
C18_TailAt288 ==
    [][TailRetained(Add32(flash_ctrl_get_kf_start_address, 288), 44)]_vars

(* C18, amended: with page size 256 and no page pending,                   *)
(* copy_to_rom(kf_start + 32, 300) programs one full page, the page at     *)
(* kf_start, and keeps the tail with target_page = kf_start + 256 and      *)
(* write_buffer_offset = 76, and flush_copy_to_rom then programs that tail *)
(* page.                                                                   *)
C18_TailAt256 ==
    [][TailRetained(Add32(flash_ctrl_get_kf_start_address, 256), 76)]_vars

(* C18 witness: the flush_copy_to_rom that programs the tail page.         *)
C18_Witness ==
    /\ call.op = "flush"
    /\ call.target_before = Add32(flash_ctrl_get_kf_start_address, 256)
    /\ call.offset_before = 76
    /\ call.result = LLKERNEL_OK
    /\ call.writes = 1

(* C19: after a successful copy_to_rom whose last byte ends exactly on a   *)
(* page boundary the carry-over is cleared: target_page_address is null,   *)
(* and a flush_copy_to_rom that follows programs nothing.                  *)
C19_FilledPageClearsCarryOver ==
    [][/\ (/\ call'.op = "copy"
           /\ call'.result = LLKERNEL_OK
           /\ call'.size # 0
           /\ Add32(call'.dest, call'.size) % flash_ctrl_get_page_size = 0)
          => target_page_address' = NULL
       /\ (/\ call.op = "copy"
           /\ call.result = LLKERNEL_OK
           /\ call.size # 0
           /\ Add32(call.dest, call.size) % flash_ctrl_get_page_size = 0
           /\ call'.op = "flush")
          => call'.writes = 0]_vars

(* C20: flush_copy_to_rom leaves no page pending whether its program       *)
(* succeeded or failed (target_page_address null, write_buffer_offset 0),  *)
(* and a flush_copy_to_rom right after a flush makes no flash call,        *)
(* returns OK and changes nothing.                                         *)
C20_FlushLeavesNothingPending ==
    [][/\ call'.op = "flush"
          => /\ target_page_address' = NULL
             /\ mem_writeBuffer_offset' = 0
       /\ (call.op = "flush" /\ call'.op = "flush")
          => /\ call'.ev = <<>>
             /\ call'.result = LLKERNEL_OK
             /\ UNCHANGED <<flash, mem_writeBuffer, target_page_address,
                            mem_writeBuffer_offset>>]_vars

(* C20 witness: a flush_copy_to_rom whose page program the device refused. *)
C20_Witness ==
    /\ call.op = "flush"
    /\ call.result = LLKERNEL_ERROR
    /\ call.target_before # NULL
    /\ target_page_address = NULL
    /\ mem_writeBuffer_offset = 0

(* C25: allocate_feature with size_RAM = RAM_BUFFER_SIZE succeeds on an    *)
(* empty catalog (the ROM size being accepted), and allocate_feature with  *)
(* size_RAM = RAM_BUFFER_SIZE + 1 returns 0 with RAM_TOO_LARGE in any      *)
(* state, makes no erase and no page write, and leaves flash and           *)
(* nb_features as they were.                                               *)
C25_RamBufferSizeBoundary ==
    [][call'.op = "allocate" =>
          /\ call'.size_RAM = LLKERNEL_RAM_BUFFER_SIZE + 1 =>
                 /\ call'.result = 0
                 /\ "RAM_TOO_LARGE" \in call'.errors
                 /\ call'.erases = 0
                 /\ call'.writes = 0
                 /\ flash' = flash
                 /\ nb_features' = nb_features
          /\ (/\ call'.size_RAM = LLKERNEL_RAM_BUFFER_SIZE
              /\ \A h \in SlotAddrs : IsFree(h)
              /\ ~RomTooLarge(call'.size_ROM)) =>
                 /\ call'.result # 0
                 /\ is_feature_used(flash'[call'.result].status)
                 /\ flash'[call'.result].ram_size = LLKERNEL_RAM_BUFFER_SIZE]_vars

(* A feature holding the whole RAM buffer is installed, and a request of   *)
(* one byte more has just been refused.                                    *)
C25_Witness ==
    /\ call.op = "allocate"
    /\ call.size_RAM = LLKERNEL_RAM_BUFFER_SIZE + 1
    /\ call.result = 0
    /\ nb_features = 1
    /\ \E h \in UsedHeaders : flash[h].ram_size = LLKERNEL_RAM_BUFFER_SIZE

(* C28: with every flash call succeeding and no power loss, a header that  *)
(* reads USED stops reading USED only in a free_feature (or an init-error  *)
(* handler) called on that very handle.                                    *)
C28_UsedStatusChangesOnlyByFree ==
    [][\A h \in SlotAddrs :
          (IsUsed(h) /\ ~is_feature_used(flash'[h].status)) =>
              (call'.op \in {"free", "init_error"} /\ call'.handle = h)]_vars

(* C22: a second get_allocated_features_count on an unchanged catalog, the *)
(* device accepting every call, issues no erase and no page write, leaves  *)
(* the flash as it is and returns the same count as the first.             *)
C22_SecondCountRewritesNothing ==
    [][(call.op = "count" /\ call'.op = "count")
       => /\ call'.erases = 0
          /\ call'.writes = 0
          /\ call'.result = call.result
          /\ flash' = flash
          /\ nb_features' = nb_features
          /\ last_feature_ptr' = last_feature_ptr]_vars

(* C22 witness: a count made right after a count, on a catalog whose first *)
(* slot is REMOVED and whose second slot holds the feature of index 0.     *)
C22_Witness ==
    /\ call.op = "count"
    /\ call.prev_op = "count"
    /\ call.result = 1
    /\ IsRemoved(flash_ctrl_get_kf_start_address)
    /\ \E h \in UsedHeaders : flash[h].feature_index = 0

(* The calls of ev before the i-th that change the page at addr: a program *)
(* of that page or an erase of its subsector, accepted by the device.      *)
ChangesBefore(ev, i, addr) ==
    {j \in 1..(i - 1) :
        /\ ev[j].ok
        /\ \/ ev[j].kind = "write" /\ ev[j].addr = addr
           \/ /\ ev[j].kind = "erase"
              /\ flash_ctrl_get_subsector_address(ev[j].addr)
                 = flash_ctrl_get_subsector_address(addr)}

(* The page at addr is erased when the i-th call of ev is made, fl being   *)
(* the flash before the first.                                             *)
ErasedAt(fl, ev, i, addr) ==
    IF ChangesBefore(ev, i, addr) = {}
    THEN fl[addr] = ErasedHeader
    ELSE ev[CHOOSE j \in ChangesBefore(ev, i, addr) :
                \A k \in ChangesBefore(ev, i, addr) : k <= j].kind = "erase"

(* C21: every page_write of allocate_feature, copy_to_rom,                 *)
(* flush_copy_to_rom, free_feature and count targets a page that is still  *)
(* erased: no page is programmed twice since the last erase of its         *)
(* subsector.                                                              *)
C21_ProgramsErasedPagesOnly ==
    [][\A i \in DOMAIN call'.ev :
          (/\ call'.ev[i].kind = "write"
           /\ call'.ev[i].ok
           /\ call'.ev[i].addr \in DOMAIN flash)
          => ErasedAt(flash, call'.ev, i, call'.ev[i].addr)]_vars

(* C30: while a page is pending, an allocate_feature, a free_feature or an *)
(* on_feature_initialization_error leaves the staged bytes below           *)
(* write_buffer_offset, and the pending page, as they are.                 *)
C30_PendingPageKeptByCatalogCalls ==
    [][(/\ target_page_address # NULL
        /\ call'.op \in {"allocate", "free", "init_error"})
       => /\ \A f \in PageWords :
                FieldOffset[f] + 4 <= mem_writeBuffer_offset
                => mem_writeBuffer'[f] = mem_writeBuffer[f]
          /\ target_page_address' = target_page_address
          /\ mem_writeBuffer_offset' = mem_writeBuffer_offset]_vars

(* C23: get_feature_handle(i) returns a non-zero value h only if the       *)
(* header at h has status USED and feature_index = i; it returns 0 for     *)
(* every i >= nb_features (unsigned) and whenever no USED header with that *)
(* index is met before the first FREE slot or the end of the slots.        *)
C23_HandleOfIndex ==
    call.op = "get_handle" =>
        /\ call.result # 0 =>
               /\ call.result \in SlotAddrs
               /\ IsUsed(call.result)
               /\ flash[call.result].feature_index = call.allocation_index
        /\ ~ULt(call.allocation_index, nb_features) => call.result = 0
        /\ (\A h \in ScannedUsed : flash[h].feature_index # call.allocation_index)
               => call.result = 0

(* C23 witness: a handle found behind a REMOVED slot.                      *)
C23_Witness ==
    /\ call.op = "get_handle"
    /\ call.result # 0
    /\ IsRemoved(flash_ctrl_get_kf_start_address)
    /\ IsUsed(call.result)

C26_AddressesOfUsedOnly ==
    [][/\ call'.op = "get_rom" =>
             call'.result = IF IsUsed(call'.handle)
                            THEN flash[call'.handle].rom_address
                            ELSE NULL
       /\ call'.op = "get_ram" =>
             call'.result = IF IsUsed(call'.handle)
                            THEN flash[call'.handle].ram_address
                            ELSE NULL
       /\ (/\ call.op = "free"
           /\ is_feature_used(call.header_before.status)
           /\ call'.op \in {"get_rom", "get_ram"}
           /\ call'.handle = call.handle)
          => call'.result = NULL]_vars

(* C26 witness: a getter called on a header that a free_feature left       *)
(* REMOVED, while another header is USED.                                  *)
C26_Witness ==
    /\ call.op \in {"get_rom", "get_ram"}
    /\ is_feature_removed(call.header_before.status)
    /\ call.result = NULL
    /\ UsedHeaders # {}

(* The features a count finds on the flash fl and get_feature_handle       *)
(* returns after it.                                                       *)
FeaturesFound(fl) ==
    {FeatureHandle(CountFeatures(fl, {}).flash, CountFeatures(fl, {}).nb_features, i) :
        i \in 0..kernel_max_nb_dynamic_features} \ {0}

(* C29: a power loss inside count, allocate_feature or free_feature leaves *)
(* every feature that was USED before the interrupted call, other than the *)
(* slot being allocated or freed, in the catalog: its header still reads   *)
(* USED and, after the restart, count counts it and get_feature_handle     *)
(* finds it.                                                               *)
C29_PowerLossKeepsOtherFeatures ==
    [][call'.op \in {"power_loss", "power_loss_count", "power_loss_free"} =>
          \A h \in FeaturesFound(flash) \ {call'.handle} :
              /\ is_feature_used(flash'[h].status)
              /\ h \in FeaturesFound(flash')]_vars

(* What a successful allocate_feature leaves, index being the              *)
(* feature_index it is to record: the lowest slot that is not USED is      *)
(* returned and holds a USED header with rom_address = slot_base + 32,     *)
(* rom_size = size_ROM, ram_size = size_RAM, that feature_index,           *)
(* nb_subsectors the number of subsectors covering                         *)
(* [slot_base, rom_address + rom_size), and all ones behind the header;    *)
(* nb_features is index + 1 and last_feature_ptr the slot.                 *)
AllocatedWithIndex(index) ==
    (call'.op = "allocate" /\ call'.result # 0) =>
        /\ call'.result \in SlotAddrs
        /\ ~IsUsed(call'.result)
        /\ \A g \in SlotAddrs : ULt(g, call'.result) => IsUsed(g)
        /\ is_feature_used(flash'[call'.result].status)
        /\ flash'[call'.result].rom_address = Add32(call'.result, 32)
        /\ flash'[call'.result].rom_size = call'.size_ROM
        /\ flash'[call'.result].ram_size = call'.size_RAM
        /\ flash'[call'.result].feature_index = index
        /\ flash'[call'.result].nb_subsectors
           = Cardinality(CoveringSubsectors(call'.result, call'.size_ROM))
        /\ flash'[call'.result].tail = AllOnes
        /\ nb_features' = Add32(index, 1)
        /\ last_feature_ptr' = call'.result

(* C27 as stated: a successful allocate_feature targets the lowest slot    *)
(* that is not USED, returns its base and leaves there a USED header with  *)
(* the sizes asked, feature_index equal to nb_features before the call,    *)
(* nb_subsectors the number of covering subsectors and the rest of the     *)
(* header page 0xFF; nb_features is then one more than before the call and *)
(* last_feature_ptr the slot.                                              *)
C27_IndexIsNbFeaturesBefore ==
    [][AllocatedWithIndex(nb_features)]_vars

(* C27, amended: the same with feature_index equal to the number of USED   *)
(* headers the count made inside allocate_feature finds from kf_start up   *)
(* to the first FREE slot, and nb_features one more than that number.      *)
C27_IndexIsCountOfUsed ==
    [][AllocatedWithIndex(Cardinality(ScannedUsed))]_vars

(* C27 witness: an allocate_feature that succeeds after a restart, in the  *)
(* slot behind a USED one, nb_features being 0 when it is called.          *)
C27_Witness ==
    /\ call.op = "allocate"
    /\ call.result # 0
    /\ call.nb_before = 0
    /\ flash[call.result].feature_index = 1
    /\ nb_features = 2

(* The indexes below nb_features (unsigned) among those of a full catalog. *)
InstalledIndexes ==
    {i \in 0..(kernel_max_nb_dynamic_features - 1) : ULt(i, nb_features)}

(* C31: in every state between public operations, also right after a      *)
(* free_feature with no count in between, get_feature_handle(i) returns    *)
(* the non-zero handle of a USED feature for every i with                  *)
(* 0 <= i < nb_features, and distinct i yield distinct handles.            *)
C31_EveryIndexHasHandle ==
    /\ \A i \in InstalledIndexes :
          /\ FeatureHandle(flash, nb_features, i) # 0
          /\ FeatureHandle(flash, nb_features, i) \in UsedHeaders
    /\ \A i, j \in InstalledIndexes :
          i # j => FeatureHandle(flash, nb_features, i)
                   # FeatureHandle(flash, nb_features, j)

(* The transfer <<dest, size>> lies inside the ROM image of the USED       *)
(* feature at h.                                                           *)
InsideImage(h, dest, size) ==
    /\ IsUsed(h)
    /\ ULe(flash[h].rom_address, dest)
    /\ ULe(dest, Add32(dest, size))
    /\ ULe(Add32(dest, size), Add32(flash[h].rom_address, flash[h].rom_size))

(* C32: for a feature that allocate_feature accepted, the largest size     *)
(* included, every copy_to_rom of a part of its image                      *)
(* [rom_address, rom_address + rom_size) and the flush_copy_to_rom that    *)
(* ends the transfer return OK, and the header at the slot base is left    *)
(* unchanged.                                                              *)
C32_ImageTransferAccepted ==
    [][/\ \A h \in SlotAddrs :
             (call'.op = "copy" /\ InsideImage(h, call'.dest, call'.size))
             => /\ call'.result = LLKERNEL_OK
                /\ \A f \in HeaderFields : flash'[h][f] = flash[h][f]
       /\ (call'.op = "flush" /\ call.op = "copy" /\ call.result = LLKERNEL_OK
           /\ \E h \in SlotAddrs : InsideImage(h, call.dest, call.size))
          => /\ call'.result = LLKERNEL_OK
             /\ \A h \in UsedHeaders :
                   \A f \in HeaderFields : flash'[h][f] = flash[h][f]]_vars

====
